---- MODULE Spec2Model ----
(***************************************************************************)
(* Model of the scroll-pagination export of qichengzx/mes (main.go).       *)
(*                                                                         *)
(* App.run calls search, which hands the first response to parseResult.    *)
(* parseResult processes the hits of its page and then calls scroll, which *)
(* fetches the next page and calls parseResult again: the pagination loop  *)
(* is a recursion, one parseResult activation per fetched page that passed *)
(* the guard of line 329.  The activations are the frames of `stack`.      *)
(*                                                                         *)
(* A document is identified by its position in the cluster's result set    *)
(* (1, 2, 3, ...), and the JSON line written for it by that same number.   *)
(***************************************************************************)
EXTENDS Integers, Sequences, FiniteSets, TLC

\* main.go:19
FLUSHBUFFER == 1000

\* Bounds of the explored runs.
MaxTotal == 3
MaxSize == 2
MaxLimit == 4
\* Cap on the number of fetches of one run (some runs never leave the loop).
MaxFetch == MaxTotal + MaxLimit + 2

VARIABLES
    maxResult,    \* opts.maxResult (flag -m)
    size,         \* opts.size (flag -s), the page size asked of the cluster
    srvTotal,     \* cluster: number of matching documents, reported as hits.total by the search
    laterTotal,   \* cluster: hits.total reported by scroll responses (0: omitted)
    rotate,       \* cluster: TRUE if every response carries a new _scroll_id
    failWrite,    \* sink: the number of the Write call that fails (0: none does)
    bad,          \* the document json.Marshal fails on (0: none)
    srvPos,       \* cluster: documents of the cursor already delivered
    nFetch,       \* number of Search/Scroll requests issued
    usedTokens,   \* scroll ids passed to Scroll requests, in order
    returned,     \* scroll ids carried by the responses decoded so far
    queryResult,  \* App.queryResult
    numResult,    \* App.numResult
    sIDs,         \* App.sIDs
    scrollIDs,    \* App.scrollIDs
    totalLines,   \* package variable totalLines
    hitResult,    \* package variable hitResult
    stack,        \* parseResult activations, innermost last
    output,       \* lines written to opts.output, in order
    flushLog,     \* number of hits handed to each flushToFile call, in order
    handed,       \* history: the hits handed to flushToFile, in order
    errSeen,      \* history: a request failed or its response was an error
    releaseCalls, \* ClearScroll requests issued
    released,     \* scroll ids carried by ClearScroll requests
    emptyShort,   \* history: a scroll response had no hits while totalLines # numResult
    pc            \* position of App.run

vars == <<maxResult, size, srvTotal, laterTotal, rotate, failWrite, bad, srvPos, nFetch,
          usedTokens, returned, queryResult, numResult, sIDs, scrollIDs, totalLines,
          hitResult, stack, output, flushLog, handed, errSeen, releaseCalls, released,
          emptyShort, pc>>

env == <<maxResult, size, srvTotal, laterTotal, rotate, failWrite, bad>>

Min(a, b) == IF a < b THEN a ELSE b

----------------------------------------------------------------------------
(* The cluster *)

\* The response to request number nf when `pos` documents have been delivered:
\* the next `size` documents of the cursor, a scroll id and hits.total.
Page(pos, nf) ==
    LET n == Min(size, srvTotal - pos)
    IN  [ScrollID |-> IF rotate THEN nf ELSE 1,
         Total    |-> IF nf = 1 THEN srvTotal ELSE laterTotal,
         Hits     |-> [k \in 1..n |-> pos + k]]

----------------------------------------------------------------------------
(* parseResult *)

\* NumResult with the result limit ignored
NumResult_IgnoreLimit(mr, qr) == qr

\* lines 323-327
NumResult(mr, qr) == IF mr > 0 THEN mr ELSE qr

\* EntryGuard without the test for an empty page
EntryGuard_NoHitsCheck(nr, nhits) == nr > 0

\* line 329
EntryGuard(nr, nhits) == nr > 0 /\ nhits > 0

\* line 330
LoopCond(tl, nr) == tl # nr

\* BufferFull one record late
BufferFull_OffByOne(buf) == Len(buf) = FLUSHBUFFER + 1

\* line 339
BufferFull(buf) == Len(buf) = FLUSHBUFFER

\* LimitHit one record late
LimitHit_OffByOne(mr, tl) == mr > 0 /\ tl = mr + 1

\* line 344
LimitHit(mr, tl) == mr > 0 /\ tl = mr

\* Residual never seen
Residual_Never(buf) == FALSE

\* line 355
Residual(buf) == Len(buf) > 0

\* Increment counting a record twice
Increment_Twice(tl) == tl + 2

\* line 336
Increment(tl) == tl + 1

\* json.Marshal(v.Source) of line 371, its error discarded: the JSON text of
\* document v, or no bytes at all (written 0) when marshalling fails
Marshal(v) == IF v = bad THEN 0 ELSE v

\* FlushBytes leaving out the hits that fail to marshal
FlushBytes_SkipFailed(hs) == SelectSeq(hs, LAMBDA v : v # bad)

\* flushToFile, lines 370-375: for every hit, in order, the bytes of Marshal
\* and a newline, that is one line a hit
FlushBytes(hs) == [k \in 1..Len(hs) |-> Marshal(hs[k])]

\* line 377: Write call number n appends the bytes to the sink, or fails; the
\* error it returns is discarded
Write(out, n, bytes) == IF n = failWrite THEN out ELSE out \o bytes

Frame(r) == [r |-> r, i |-> 0, pc |-> "loop"]

Top == stack[Len(stack)]

SetTop(f) == [stack EXCEPT ![Len(stack)] = f]

----------------------------------------------------------------------------
SmallInit ==
    /\ maxResult \in 0..MaxLimit
    /\ size \in 1..MaxSize
    /\ srvTotal \in 0..MaxTotal
    /\ laterTotal \in 0..MaxTotal
    /\ rotate \in BOOLEAN

\* Runs long enough to fill the flush buffer.
BigInit ==
    /\ maxResult \in {0, FLUSHBUFFER, FLUSHBUFFER + FLUSHBUFFER \div 2}
    /\ size \in {FLUSHBUFFER, FLUSHBUFFER + FLUSHBUFFER \div 2}
    /\ srvTotal \in {FLUSHBUFFER - 1, FLUSHBUFFER, FLUSHBUFFER + 1,
                     2 * FLUSHBUFFER + FLUSHBUFFER \div 2}
    /\ laterTotal = srvTotal
    /\ rotate = TRUE

\* The state of the process when run is called (lines 22-27, 140-148).
Start ==
    /\ srvPos = 0
    /\ nFetch = 0
    /\ usedTokens = <<>>
    /\ returned = {}
    /\ queryResult = 0
    /\ numResult = 0
    /\ sIDs = {}
    /\ scrollIDs = <<>>
    /\ totalLines = 0
    /\ hitResult = <<>>
    /\ stack = <<>>
    /\ output = <<>>
    /\ flushLog = <<>>
    /\ handed = <<>>
    /\ errSeen = FALSE
    /\ releaseCalls = 0
    /\ released = {}
    /\ emptyShort = FALSE
    /\ pc = "search"

\* Runs in which every Write succeeds and every document marshals.
Init ==
    /\ SmallInit \/ BigInit
    /\ failWrite = 0
    /\ bad = 0
    /\ Start

\* Runs in which one Write to the sink fails.
InitWrite ==
    /\ SmallInit
    /\ failWrite \in 1..2
    /\ bad = 0
    /\ Start

\* Runs in which json.Marshal fails on one document.
InitMarshal ==
    /\ SmallInit
    /\ failWrite = 0
    /\ bad \in 1..MaxTotal
    /\ bad <= srvTotal
    /\ Start

\* The error logged and the run carried on
Fatal_Continues ==
    /\ pc' = pc
    /\ errSeen' = TRUE
    /\ UNCHANGED <<srvPos, returned, queryResult, numResult, sIDs, scrollIDs,
                   totalLines, hitResult, stack, output, flushLog, handed,
                   releaseCalls, released, emptyShort>>

\* log.Fatalf on a failed request, an error response or an undecodable body
\* (lines 270-272, 294-296, 302-319): the process exits.
Fatal ==
    /\ pc' = "fatal"
    /\ errSeen' = TRUE
    /\ UNCHANGED <<srvPos, returned, queryResult, numResult, sIDs, scrollIDs,
                   totalLines, hitResult, stack, output, flushLog, handed,
                   releaseCalls, released, emptyShort>>

\* search (lines 278-298) up to the guard of parseResult (line 329)
Search ==
    /\ pc = "search"
    /\ nFetch' = 1
    /\ UNCHANGED <<env, usedTokens>>
    /\ \/ Fatal
       \/ LET r == Page(0, 1)
              nr == NumResult(maxResult, r.Total)
          IN  /\ srvPos' = Len(r.Hits)
              /\ returned' = {r.ScrollID}
              /\ queryResult' = r.Total
              /\ numResult' = nr
              /\ IF EntryGuard(nr, Len(r.Hits))
                 THEN stack' = <<Frame(r)>> /\ pc' = "parse"
                 ELSE stack' = <<>> /\ pc' = "clearScroll"
              /\ UNCHANGED <<sIDs, scrollIDs, totalLines, hitResult, output, flushLog,
                             handed, errSeen, releaseCalls, released, emptyShort>>

\* line 330-333: the loop condition, and the scroll id of the page noted
LoopHead ==
    /\ pc = "parse"
    /\ Top.pc = "loop"
    /\ IF LoopCond(totalLines, numResult)
       THEN /\ sIDs' = sIDs \cup {Top.r.ScrollID}
            /\ stack' = SetTop(IF Len(Top.r.Hits) = 0
                              THEN [Top EXCEPT !.pc = "scroll"]
                              ELSE [Top EXCEPT !.i = 1, !.pc = "range"])
       ELSE /\ sIDs' = sIDs
            /\ stack' = SetTop([Top EXCEPT !.pc = "end"])
    /\ UNCHANGED <<env, srvPos, nFetch, usedTokens, returned, queryResult, numResult,
                   scrollIDs, totalLines, hitResult, output, flushLog, handed, errSeen,
                   releaseCalls, released, emptyShort, pc>>

\* lines 335-350: one iteration of the range loop
ProcessHit ==
    /\ pc = "parse"
    /\ Top.pc = "range"
    /\ LET v == Top.r.Hits[Top.i]
           tl == Increment(totalLines)
           buf1 == Append(hitResult, v)
           full == BufferFull(buf1)
           buf2 == IF full THEN <<>> ELSE buf1
           hit == LimitHit(maxResult, tl)
           w1 == IF full THEN <<buf1>> ELSE <<>>
           w2 == IF hit THEN <<buf2>> ELSE <<>>
           ws == w1 \o w2
       IN  /\ totalLines' = tl
           /\ hitResult' = IF hit THEN <<>> ELSE buf2
           /\ flushLog' = flushLog \o [k \in 1..Len(ws) |-> Len(ws[k])]
           /\ handed' = IF Len(ws) = 0 THEN handed
                        ELSE IF Len(ws) = 1 THEN handed \o ws[1]
                        ELSE handed \o ws[1] \o ws[2]
           /\ output' = IF Len(ws) = 0 THEN output
                        ELSE IF Len(ws) = 1
                             THEN Write(output, Len(flushLog) + 1, FlushBytes(ws[1]))
                        ELSE Write(Write(output, Len(flushLog) + 1, FlushBytes(ws[1])),
                                   Len(flushLog) + 2, FlushBytes(ws[2]))
           /\ stack' = SetTop(IF hit \/ Top.i = Len(Top.r.Hits)
                              THEN [Top EXCEPT !.pc = "scroll"]
                              ELSE [Top EXCEPT !.i = Top.i + 1])
    /\ UNCHANGED <<env, srvPos, nFetch, usedTokens, returned, queryResult, numResult,
                   sIDs, scrollIDs, errSeen, releaseCalls, released, emptyShort, pc>>

\* line 352: scroll (lines 260-275) up to the guard of the nested parseResult;
\* the caller resumes at its loop condition when the nested activation returns
Scroll ==
    /\ pc = "parse"
    /\ Top.pc = "scroll"
    /\ nFetch < MaxFetch
    /\ nFetch' = nFetch + 1
    /\ usedTokens' = Append(usedTokens, Top.r.ScrollID)
    /\ UNCHANGED env
    /\ \/ Fatal
       \/ LET r == Page(srvPos, nFetch + 1)
              nr == NumResult(maxResult, r.Total)
              caller == SetTop([Top EXCEPT !.pc = "loop"])
          IN  /\ srvPos' = srvPos + Len(r.Hits)
              /\ returned' = returned \cup {r.ScrollID}
              /\ queryResult' = r.Total
              /\ numResult' = nr
              /\ stack' = IF EntryGuard(nr, Len(r.Hits))
                          THEN Append(caller, Frame(r))
                          ELSE caller
              /\ emptyShort' = (emptyShort \/ (Len(r.Hits) = 0 /\ totalLines # nr))
              /\ pc' = pc
              /\ UNCHANGED <<sIDs, scrollIDs, totalLines, hitResult, output, flushLog,
                             handed, errSeen, releaseCalls, released>>

\* lines 355-360: the residual flush, and the return to the caller
Return ==
    /\ pc = "parse"
    /\ Top.pc = "end"
    /\ IF Residual(hitResult)
       THEN /\ flushLog' = Append(flushLog, Len(hitResult))
            /\ handed' = handed \o hitResult
            /\ output' = Write(output, Len(flushLog) + 1, FlushBytes(hitResult))
            /\ hitResult' = <<>>
       ELSE UNCHANGED <<flushLog, handed, output, hitResult>>
    /\ stack' = SubSeq(stack, 1, Len(stack) - 1)
    /\ pc' = IF Len(stack) = 1 THEN "clearScroll" ELSE "parse"
    /\ UNCHANGED <<env, srvPos, nFetch, usedTokens, returned, queryResult, numResult,
                   sIDs, scrollIDs, totalLines, errSeen, releaseCalls, released,
                   emptyShort>>

\* clearScroll (lines 381-383) and the end of run (lines 159-161): the
\* statement builds a request option from t.scrollIDs and sends nothing
ClearScroll ==
    /\ pc = "clearScroll"
    /\ pc' = "done"
    /\ UNCHANGED <<env, srvPos, nFetch, usedTokens, returned, queryResult, numResult,
                   sIDs, scrollIDs, totalLines, hitResult, stack, output, flushLog,
                   handed, errSeen, releaseCalls, released, emptyShort>>

Next == Search \/ LoopHead \/ ProcessHit \/ Scroll \/ Return \/ ClearScroll

Spec == Init /\ [][Next]_vars

SpecWrite == InitWrite /\ [][Next]_vars

SpecMarshal == InitMarshal /\ [][Next]_vars

----------------------------------------------------------------------------
(* Properties *)

RECURSIVE Sum(_)
Sum(s) == IF s = <<>> THEN 0 ELSE Head(s) + Sum(Tail(s))

CeilDiv(a, b) == (a + b - 1) \div b

\* C1: a run with resultLimit = 0 that completes has emitted exactly the
\* total reported by the first page.
C1_EmittedEqualsTotal ==
    (pc = "done" /\ maxResult = 0) => totalLines = srvTotal

\* C2: with 0 < resultLimit < totalMatched, emission never passes the limit
\* and a completed run has emitted, and written, exactly resultLimit records.
C2_LimitExact ==
    (maxResult > 0 /\ maxResult < srvTotal) =>
        /\ totalLines <= maxResult
        /\ Len(output) <= maxResult
        /\ pc = "done" => (totalLines = maxResult /\ Len(output) = maxResult)

C2_Witness ==
    /\ pc = "done"
    /\ maxResult > 0 /\ maxResult < srvTotal
    /\ maxResult % size # 0
    /\ totalLines = maxResult

\* C3: with 0 < resultLimit < totalMatched, once emittedCount has reached
\* the limit no further page is fetched.
C3_NoFetchAfterLimit ==
    [][(maxResult > 0 /\ maxResult < srvTotal /\ totalLines = maxResult)
         => nFetch' = nFetch]_vars

\* C4: what has been written to the sink is at every point a prefix of the
\* cluster's result sequence 1, 2, 3, ...
C4_OutputIsPrefix ==
    \A k \in 1..Len(output) : output[k] = k

\* C5: when a run completes the buffer is empty and the records handed to
\* the sink over all flushes are as many as were emitted.
C5_NothingLost ==
    pc = "done" =>
        /\ hitResult = <<>>
        /\ Sum(flushLog) = totalLines
        /\ Len(output) = totalLines

C5_Witness ==
    /\ pc = "done"
    /\ totalLines % FLUSHBUFFER # 0
    /\ flushLog # <<>>
    /\ flushLog[Len(flushLog)] < FLUSHBUFFER

\* C6: a completed run has issued exactly one cursor release, carrying
\* every scroll id a fetch returned.
C6_OneReleaseAllTokens ==
    pc = "done" => (releaseCalls = 1 /\ released = returned)

\* C7: with resultLimit > totalMatched > 0 the run never emits more than
\* totalMatched records and completes with exactly totalMatched.
C7_TargetIsTotal ==
    (maxResult > srvTotal /\ srvTotal > 0) =>
        /\ totalLines <= srvTotal
        /\ pc = "done" => totalLines = srvTotal

\* C8: after a continuation page with no records and the target unmet, the
\* loop ends: no record is processed and no page fetched any more.
C8_EmptyPageEndsLoop ==
    [][emptyShort => (totalLines' = totalLines /\ nFetch' = nFetch)]_vars

\* C9: when the first page reports a total of 0 or has no records, the run
\* makes the one initial fetch, no flush, emits nothing and does not fail.
C9_EmptyFirstPage ==
    (pc \notin {"search", "fatal"}
       /\ (Page(0, 1).Total = 0 \/ Len(Page(0, 1).Hits) = 0)) =>
        /\ nFetch = 1
        /\ flushLog = <<>>
        /\ totalLines = 0
        /\ pc \in {"clearScroll", "done"}

C9_Witness ==
    /\ pc = "done"
    /\ srvTotal = 0
    /\ maxResult > 0
    /\ nFetch = 1
    /\ totalLines = 0

\* C10: with resultLimit = 0 every flush but the last is of exactly
\* FLUSHBUFFER records, none is empty, and a completed run that emitted n
\* records has made ceil(n / FLUSHBUFFER) flush calls.
C10_FlushCount ==
    maxResult = 0 =>
        /\ \A k \in 1..Len(flushLog) : flushLog[k] \in 1..FLUSHBUFFER
        /\ \A k \in 1..(Len(flushLog) - 1) : flushLog[k] = FLUSHBUFFER
        /\ Len(hitResult) < FLUSHBUFFER
        /\ pc = "done" => Len(flushLog) = CeilDiv(totalLines, FLUSHBUFFER)

C10_Witness ==
    /\ pc = "done"
    /\ maxResult = 0
    /\ totalLines = FLUSHBUFFER + 1
    /\ flushLog = <<FLUSHBUFFER, 1>>

\* The end-to-end scenario of C11: 2500 matching documents, pages of 1000,
\* no result limit, every page reporting the same total.
Scenario2500 ==
    /\ maxResult = 0
    /\ size = FLUSHBUFFER
    /\ srvTotal = 2 * FLUSHBUFFER + FLUSHBUFFER \div 2
    /\ laterTotal = srvTotal

\* C11: in that scenario the pages processed are of 1000, 1000 and 500
\* records, a flush is made at record 1000, at record 2000 and for the
\* residual 500 at the end, and the completed run has issued 3 continuation
\* fetches and emitted 2500 records.
C11_Scenario ==
    Scenario2500 =>
        /\ Len(stack) <= 3
        /\ \A k \in 1..Len(stack) :
              Len(stack[k].r.Hits) = <<FLUSHBUFFER, FLUSHBUFFER, FLUSHBUFFER \div 2>>[k]
        /\ totalLines < srvTotal => Len(flushLog) = totalLines \div FLUSHBUFFER
        /\ pc = "done" =>
              /\ Len(usedTokens) = 3
              /\ flushLog = <<FLUSHBUFFER, FLUSHBUFFER, FLUSHBUFFER \div 2>>
              /\ totalLines = srvTotal

C11_Witness ==
    /\ Scenario2500
    /\ pc = "done"
    /\ totalLines = 2 * FLUSHBUFFER + FLUSHBUFFER \div 2
    /\ Len(flushLog) = 3

WriteFailed == failWrite > 0 /\ Len(flushLog) >= failWrite

\* C12: once a Write to the sink has failed the run aborts: no fetch and no
\* flush follow, and the run does not complete.
C12_WriteFailureFatal ==
    [][WriteFailed => (nFetch' = nFetch /\ flushLog' = flushLog /\ pc' # "done")]_vars

\* C13: once a fetch has failed or its response is an error the run is
\* aborted for good: no fetch, no record, no flush, no cursor release and no
\* completion follow.
C13_FetchErrorAborts ==
    /\ [](errSeen => (pc = "fatal" /\ releaseCalls = 0))
    /\ [][errSeen => /\ nFetch' = nFetch
                     /\ totalLines' = totalLines
                     /\ hitResult' = hitResult
                     /\ flushLog' = flushLog
                     /\ releaseCalls' = releaseCalls
                     /\ pc' = "fatal"]_vars

C13_Witness ==
    /\ errSeen
    /\ pc = "fatal"
    /\ nFetch > 1
    /\ hitResult # <<>>

\* C14: emittedCount never decreases, grows by one at a time, and with a
\* result limit set never exceeds it, also when an earlier page is processed
\* again after a continuation fetch has returned.
C14_CountMonotone ==
    /\ [](maxResult > 0 => totalLines <= maxResult)
    /\ [][totalLines' = totalLines \/ totalLines' = totalLines + 1]_vars

C14_Witness ==
    /\ maxResult > 0
    /\ emptyShort
    /\ totalLines = maxResult
    /\ totalLines > srvTotal

\* C15: once the first page is decoded, the stored total and the target
\* derived from it are never changed by a later page.
C15_TotalSetOnce ==
    [][pc # "search" => (queryResult' = queryResult /\ numResult' = numResult)]_vars

\* C16: with a cluster that returns a new scroll id with every page (and
\* the same total on every page), no two continuation fetches are issued
\* with the same scroll id.
C16_TokenNotReused ==
    (rotate /\ laterTotal = srvTotal) => \A i, j \in 1..Len(usedTokens) :
                 i # j => usedTokens[i] # usedTokens[j]

\* C17: the buffer never holds more than FLUSHBUFFER records, no flush is
\* handed more, and the buffer holds fewer whenever a page is about to be
\* fetched.
C17_BufferBounded ==
    /\ Len(hitResult) <= FLUSHBUFFER
    /\ \A k \in 1..Len(flushLog) : flushLog[k] <= FLUSHBUFFER
    /\ (pc = "search" \/ (pc = "parse" /\ Top.pc = "scroll"))
          => Len(hitResult) < FLUSHBUFFER

C17_Witness ==
    /\ size > FLUSHBUFFER
    /\ pc = "parse"
    /\ Top.pc = "scroll"
    /\ flushLog # <<>>
    /\ hitResult # <<>>

\* C18: the pages the driver holds (activations of parseResult that have
\* not returned) are never more than two, however many pages are fetched
\* (stated for a cluster that reports the same total on every page).
C18_HeldPagesBounded ==
    laterTotal = srvTotal => Len(stack) <= 2

\* C19 as amended: a record that fails to marshal still gets its newline,
\* so every record handed to a flush gives exactly one line, in order: an
\* empty line for the failing record, the document's line for the others;
\* and the run does not fail for it.
C19_EmptyLineWritten ==
    /\ output = [k \in 1..Len(handed) |-> IF handed[k] = bad THEN 0 ELSE handed[k]]
    /\ pc = "fatal" => errSeen

C19_Witness ==
    /\ pc = "done"
    /\ Len(flushLog) = 1
    /\ \E k \in 1..(Len(handed) - 1) : handed[k] = bad
    /\ Len(output) = Len(handed)

\* C19 as stated: a record that fails to marshal contributes no line at all
\* to the bytes written, the other records are written in order, and the
\* run does not fail for it.
C19_FailedRecordDropped ==
    /\ output = SelectSeq(handed, LAMBDA v : v # bad)
    /\ pc = "fatal" => errSeen

\* C20: with writes succeeding, emittedCount is at every step the number of
\* records handed to the sink by flushes plus the number in the buffer, and
\* the sink holds one line for every record handed to it.
C20_Accounting ==
    /\ totalLines = Sum(flushLog) + Len(hitResult)
    /\ Len(handed) = Sum(flushLog)
    /\ Len(output) = Len(handed)

C20_Witness ==
    /\ pc = "parse"
    /\ Top.pc = "range"
    /\ flushLog # <<>>
    /\ hitResult # <<>>
    /\ totalLines = Sum(flushLog) + Len(hitResult)

====
